---------------------------- MODULE Spec2Model ----------------------------
(***************************************************************************)
(* A state-machine model of the photobooth: the booth page (page.tsx), the *)
(* Camera component in its two source versions (the pre-capture version,   *)
(* src/unnamed/part_003, and the burst-after-countdown version,            *)
(* src/unnamed/part_002) and the PhotoEditor component (PhotoEditor.tsx).  *)
(*                                                                         *)
(* React effects are run inside the action of the handler whose state      *)
(* change triggers them: between a commit and its effects no timer of the  *)
(* component is pending that could observe the difference.                 *)
(***************************************************************************)
EXTENDS Integers, Sequences, FiniteSets, TLC

VARIABLES
    \* ---- which Camera source file is built
    camVersion,
    \* ---- BoothPage (page.tsx)
    step, selectedLayout, capturedPhotos, selectedFilter,
    \* ---- Camera
    photos, isCapturing, countdown, filter,
    currentCount, countdownTimer, captureTimer, burstRef, sampleNo,
    burstPc, burstI, burst,
    \* ---- the frame source: getScreenshot() calls that yielded no frame
    misses,
    \* ---- the browser: whether the booth page is mounted (not navigated
    \* away from) and whether the machine has a video input device
    mounted, hasVideoInput,
    \* ---- which PhotoEditor version of PhotoEditor.tsx is built
    edVersion,
    \* ---- PhotoEditor state
    borderColorState, stickers, isExporting, gifProgress, displayFrameIndex,
    frameCache,
    \* ---- the clock read by Date.now()
    now,
    \* ---- the export in flight (downloadImage / downloadGif closures)
    exPc, exFormat, exBorder, exLoop, exI, currentFrame, gifFrames, exCanvas,
    \* ---- the GIF encoder: frames it has finished encoding
    encDone,
    \* ---- the files handed to the browser for download
    files,
    \* ---- counters of the user's operations
    edits, exports,
    \* ---- the canvases applyFilterToCanvas is called on: their pixel data
    canvasPixels

camVars == <<camVersion, step, selectedLayout, capturedPhotos, selectedFilter,
             photos, isCapturing, countdown, filter,
             currentCount, countdownTimer, captureTimer, burstRef, sampleNo,
             burstPc, burstI, burst, misses, mounted, hasVideoInput>>

stickerVars == <<stickers, now>>

exportVars == <<isExporting, gifProgress, displayFrameIndex, exPc, exFormat,
                exBorder, exLoop, exI, currentFrame, gifFrames, exCanvas,
                encDone, files, exports>>

edVars == <<edVersion, borderColorState, frameCache, stickerVars, exportVars,
            edits>>

vars == <<camVars, edVars, canvasPixels>>

(***************************************************************************)
(* Bounds                                                                  *)
(***************************************************************************)
\* part_003: the 100 ms capture ticks that fit into the countdown of one shot
MaxSamples == 1

\* part_002: the iterations of captureBurst (BURST_COUNT = 30 in the source)
BurstCount == 2

\* getScreenshot() calls of one session that may yield no frame
MaxMisses == 2

(***************************************************************************)
(* Program constants                                                       *)
(***************************************************************************)
Layouts == {"4-diagonal", "3-diagonal", "4-square", "6-grid"}

Filters == {"normal", "bw", "soft", "vintage"}

\* LAYOUT_CONFIG[l].count
LayoutCount(l) ==
    CASE l = "4-diagonal" -> 4
      [] l = "3-diagonal" -> 3
      [] l = "4-square"   -> 4
      [] l = "6-grid"     -> 6

\* Camera's timerDuration = 3 default; BoothPage passes none
timerDuration == 3

NoLayout == "null"

NoCount == -1

\* the photoCount prop BoothPage hands to Camera
photoCount == LayoutCount(selectedLayout)

(***************************************************************************)
(* Frames.  getScreenshot() yields a data URL or null; a frame is named by *)
(* the shot it was sampled for, its sample number within the shot and      *)
(* whether it is the forced final capture.                                 *)
(***************************************************************************)
Frame(s, n, fin) == [shot |-> s, k |-> n, final |-> fin]

\* the screenshot attempt of one timer callback: the frame appended to b on
\* a hit (imageSrc && imageSrc.startsWith("data:image/")), b itself on a miss
Push(b, hit, f) == IF hit THEN Append(b, f) ELSE b

(***************************************************************************)
(* BoothPage                                                               *)
(***************************************************************************)
handleLayoutSelect_anyStep(l) ==
    /\ mounted
    /\ selectedLayout' = l
    /\ step' = "camera"
    /\ UNCHANGED <<camVersion, capturedPhotos, selectedFilter,
                   photos, isCapturing, countdown, filter,
                   currentCount, countdownTimer, captureTimer, burstRef,
                   sampleNo, burstPc, burstI, burst, misses>>

handleLayoutSelect(l) ==
    /\ mounted
    /\ step = "layout"
    /\ selectedLayout' = l
    /\ step' = "camera"
    /\ UNCHANGED <<camVersion, capturedPhotos, selectedFilter,
                   photos, isCapturing, countdown, filter,
                   currentCount, countdownTimer, captureTimer, burstRef,
                   sampleNo, burstPc, burstI, burst, misses>>

\* the Camera controls are rendered only before a session
ControlsShown_always == mounted /\ step = "camera"

ControlsShown == mounted /\ step = "camera" /\ ~isCapturing /\ Len(photos) = 0

setFilter(f) ==
    /\ ControlsShown
    /\ filter' = f
    /\ UNCHANGED <<camVersion, step, selectedLayout, capturedPhotos,
                   selectedFilter, photos, isCapturing, countdown,
                   currentCount, countdownTimer, captureTimer, burstRef,
                   sampleNo, burstPc, burstI, burst, misses>>

(***************************************************************************)
(* Camera effects                                                          *)
(***************************************************************************)
\* the guard of the capture / countdown effect
ShotPending_offByOne(cap, ps) == cap /\ Len(ps) <= photoCount

ShotPending(cap, ps) == cap /\ Len(ps) < photoCount

\* the guard of the completion effect (part_002)
SessionComplete(cap, ps) == Len(ps) >= photoCount /\ cap

\* burstRef.current = []: the buffer a new shot starts with, whatever the
\* buffer b held
NewBuffer_kept(b) == b

NewBuffer(b) == <<>>

\* The capture effect (part_003) resp. the countdown effect (part_002), run
\* for the committed state (cap, ps): its cleanup clears the timers of the
\* previous run, its body starts the next shot.
CountdownEffect(cap, ps) ==
    IF ShotPending(cap, ps)
    THEN /\ countdown' = timerDuration
         /\ currentCount' = timerDuration
         /\ countdownTimer' = TRUE
         /\ captureTimer' = (camVersion = "precapture")
         /\ burstRef' = IF camVersion = "precapture"
                        THEN NewBuffer(burstRef) ELSE burstRef
         /\ sampleNo' = 0
    ELSE /\ countdownTimer' = FALSE
         /\ captureTimer' = FALSE
         /\ UNCHANGED <<countdown, currentCount, burstRef, sampleNo>>

\* handleCaptureComplete, reached through the onComplete prop
handleCaptureComplete(ps, f) ==
    /\ capturedPhotos' = ps
    /\ selectedFilter' = f
    /\ step' = "edit"

\* The effects that follow a commit of ps.  part_002 declares the completion
\* effect first and the countdown effect second; both see the state of the
\* render (isCapturing still true).  part_003 has the capture effect only.
AfterCommit(ps) ==
    /\ photos' = ps
    /\ IF camVersion = "burst" /\ SessionComplete(isCapturing, ps)
       THEN /\ isCapturing' = FALSE
            /\ handleCaptureComplete(ps, filter)
       ELSE UNCHANGED <<isCapturing, capturedPhotos, selectedFilter, step>>
    /\ CountdownEffect(isCapturing, ps)

startSession ==
    /\ ControlsShown
    /\ photos' = <<>>
    /\ isCapturing' = TRUE
    /\ CountdownEffect(TRUE, <<>>)
    /\ UNCHANGED <<camVersion, step, selectedLayout, capturedPhotos,
                   selectedFilter, filter, burstPc, burstI, burst, misses>>

(***************************************************************************)
(* Camera timers                                                           *)
(***************************************************************************)
\* what one getScreenshot() call may yield: a frame (TRUE) or none (FALSE)
\* a frame can be had only from a mounted Webcam (webcamRef.current is null
\* after the unmount) of a machine with a video input
CanSample == mounted /\ hasVideoInput

Outcomes ==
    {hit \in BOOLEAN :
        IF hit THEN CanSample ELSE ~CanSample \/ misses < MaxMisses}

Missed(hit) == IF hit \/ ~CanSample THEN misses ELSE misses + 1

\* part_003: the 100 ms capture interval
captureTick ==
    /\ captureTimer
    /\ sampleNo < MaxSamples
    /\ \E hit \in Outcomes :
         /\ burstRef' = Push(burstRef, hit,
                             Frame(Len(photos) + 1, sampleNo + 1, FALSE))
         /\ misses' = Missed(hit)
    /\ sampleNo' = sampleNo + 1
    /\ UNCHANGED <<camVersion, step, selectedLayout, capturedPhotos,
                   selectedFilter, photos, isCapturing, countdown, filter,
                   currentCount, countdownTimer, captureTimer,
                   burstPc, burstI, burst>>

\* the 1000 ms countdown interval, before zero
countdownTick ==
    /\ countdownTimer
    /\ currentCount - 1 > 0
    /\ currentCount' = currentCount - 1
    /\ countdown' = currentCount - 1
    /\ UNCHANGED <<camVersion, step, selectedLayout, capturedPhotos,
                   selectedFilter, photos, isCapturing, filter,
                   countdownTimer, captureTimer, burstRef, sampleNo,
                   burstPc, burstI, burst, misses>>

\* the burst part_003 commits when the countdown reaches zero: the buffer
\* with the final snap pushed onto it
FinalBurst(b, hit) == Push(b, hit, Frame(Len(photos) + 1, sampleNo + 1, TRUE))

\* part_003: the countdown reaches zero: both timers are cleared, the final
\* snap is taken, the burst is committed and the capture effect runs again.
\* The capture interval is armed before the countdown interval and is due
\* ten times before it, so its ticks of this shot have fired.
countdownZeroPre ==
    /\ camVersion = "precapture"
    /\ countdownTimer
    /\ currentCount - 1 <= 0
    /\ sampleNo = MaxSamples
    /\ \E hit \in Outcomes :
         LET b == FinalBurst(burstRef, hit) IN
         /\ misses' = Missed(hit)
         /\ photos' = Append(photos, b)
         /\ IF ShotPending(isCapturing, Append(photos, b))
            THEN /\ countdown' = timerDuration
                 /\ currentCount' = timerDuration
                 /\ countdownTimer' = TRUE
                 /\ captureTimer' = TRUE
                 /\ burstRef' = NewBuffer(b)
                 /\ sampleNo' = 0
            ELSE /\ countdown' = currentCount - 1
                 /\ currentCount' = currentCount - 1
                 /\ countdownTimer' = FALSE
                 /\ captureTimer' = FALSE
                 /\ burstRef' = b
                 /\ sampleNo' = sampleNo
    /\ UNCHANGED <<camVersion, step, selectedLayout, capturedPhotos,
                   selectedFilter, isCapturing, filter, burstPc, burstI, burst>>

\* part_002: the countdown reaches zero: the timer is cleared and
\* captureBurst runs up to its first await (iteration 0)
countdownZeroBurst ==
    /\ camVersion = "burst"
    /\ countdownTimer
    /\ currentCount - 1 <= 0
    /\ currentCount' = currentCount - 1
    /\ countdown' = currentCount - 1
    /\ countdownTimer' = FALSE
    /\ burstPc' = "loop"
    /\ burstI' = 1
    /\ \E hit \in Outcomes :
         /\ burst' = Push(<<>>, hit, Frame(Len(photos) + 1, 1, FALSE))
         /\ misses' = Missed(hit)
    /\ UNCHANGED <<camVersion, step, selectedLayout, capturedPhotos,
                   selectedFilter, photos, isCapturing, filter,
                   captureTimer, burstRef, sampleNo>>

\* part_002: captureBurst resumes after an await inside the loop
burstIteration ==
    /\ burstPc = "loop"
    /\ burstI < BurstCount
    /\ \E hit \in Outcomes :
         /\ burst' = Push(burst, hit,
                          Frame(Len(photos) + 1, burstI + 1, FALSE))
         /\ misses' = Missed(hit)
    /\ burstI' = burstI + 1
    /\ UNCHANGED <<camVersion, step, selectedLayout, capturedPhotos,
                   selectedFilter, photos, isCapturing, countdown, filter,
                   currentCount, countdownTimer, captureTimer, burstRef,
                   sampleNo, burstPc>>

\* the commit guard of captureBurst
BurstCommits(b) == Len(b) > 0

\* part_002: captureBurst leaves the loop after its last await; setPhotos
\* on an unmounted component is dropped by React
burstEnd ==
    /\ burstPc = "loop"
    /\ burstI >= BurstCount
    /\ burstPc' = "idle"
    /\ IF BurstCommits(burst) /\ mounted
       THEN AfterCommit(Append(photos, burst))
       ELSE UNCHANGED <<photos, isCapturing, capturedPhotos, selectedFilter,
                        step, countdown, currentCount, countdownTimer,
                        captureTimer, burstRef, sampleNo>>
    /\ UNCHANGED <<camVersion, selectedLayout, filter, burstI, burst, misses>>

\* The user leaves the booth page (a link of the navigation bar): the page
\* and the Camera unmount and the cleanups of the effects run.  part_003
\* clears both intervals, part_002 the countdown interval; the timeouts
\* captureBurst awaits belong to no effect.
navigateAway ==
    /\ mounted
    /\ mounted' = FALSE
    /\ countdownTimer' = FALSE
    /\ captureTimer' = FALSE
    /\ UNCHANGED <<camVersion, step, selectedLayout, capturedPhotos,
                   selectedFilter, photos, isCapturing, countdown, filter,
                   currentCount, burstRef, sampleNo, burstPc, burstI, burst,
                   misses, hasVideoInput>>

(***************************************************************************)
(* PhotoEditor: constants and props                                        *)
(***************************************************************************)
\* stickers on the strip at one time
MaxStickers == 1

\* stickers on the strip at one time where stickers are told apart by id,
\* and the sticker operations of one such session
MaxIdStickers == 2

MaxIdOps == 5

\* the largest value Date.now() returns (the clock starts at 1)
MaxClock == 2

\* sticker and border-colour operations while exports are modelled
MaxEdits == 2

\* exports started in one editor session
MaxExports == 2

\* BORDER_COLORS
BORDER_COLORS == {"#ffffff", "#000000", "#ffb7b2", "#b5ead7", "#c7ceea",
                  "#e2f0cb"}

\* STICKERS: two of the ten glyphs
Glyphs == {"heart", "star"}

\* where a drag may stop: Draggable's onStop reports (data.x, data.y)
DragStops == {<<25, 40>>, <<-10, 5>>}

\* sticker scales are counted in tenths: 0.5 is 5, 1 is 10, 3 is 30, a
\* resize button adds or subtracts 0.1
ScaleOne == 10

ScaleMin == 5

ScaleMax == 30

ResizeDeltas == {1, -1}

\* displayFrameIndex = null
NullIndex == -1

\* no canvas: a raster that shows nothing
NoCanvas ==
    [pos |-> NullIndex, shown |-> <<>>, border |-> "", stickers |-> <<>>,
     filter |-> "", obj |-> <<"none", 0, 0>>]

EmptyCache == <<>>

Max(a, b) == IF a >= b THEN a ELSE b

Min(a, b) == IF a <= b THEN a ELSE b

\* the props of PhotoEditor
edPhotos == capturedPhotos

edFilter == selectedFilter

(***************************************************************************)
(* PhotoEditor: border colour and stickers                                 *)
(***************************************************************************)
\* frameCacheRef.current.clear()
ClearedCache_kept(c) == c

ClearedCache(c) == EmptyCache

setBorderColor(color) ==
    /\ borderColorState' = color
    /\ frameCache' = ClearedCache(frameCache)
    /\ UNCHANGED <<edVersion, stickerVars>>

\* { id: Date.now(), content, x: 0, y: 0, scale: 1 }
NewSticker(t, content) ==
    [id |-> t, content |-> content, x |-> 0, y |-> 0, scale |-> ScaleOne]

\* t is what Date.now() returns: a clock reading not before the last one
addSticker(content, t) ==
    /\ t >= now
    /\ now' = t
    /\ stickers' = Append(stickers, NewSticker(t, content))
    /\ frameCache' = ClearedCache(frameCache)
    /\ UNCHANGED <<edVersion, borderColorState>>

\* stickers.filter(s => s.id !== id)
RemoveById(ss, id) == SelectSeq(ss, LAMBDA st : st.id # id)

removeSticker(id) ==
    /\ stickers' = RemoveById(stickers, id)
    /\ frameCache' = ClearedCache(frameCache)
    /\ UNCHANGED <<edVersion, borderColorState, now>>

\* Math.max(0.5, Math.min(3, s.scale + delta))
NewScale_looseCeiling(sc, delta) ==
    Max(ScaleMin, Min(ScaleMax + 1, sc + delta))

NewScale(sc, delta) == Max(ScaleMin, Min(ScaleMax, sc + delta))

Resized_everySticker(ss, id, delta) ==
    [n \in 1..Len(ss) |->
        [ss[n] EXCEPT !.scale = NewScale(ss[n].scale, delta)]]

Resized(ss, id, delta) ==
    [n \in 1..Len(ss) |->
        IF ss[n].id = id
        THEN [ss[n] EXCEPT !.scale = NewScale(ss[n].scale, delta)]
        ELSE ss[n]]

resizeSticker(id, delta) ==
    /\ stickers' = Resized(stickers, id, delta)
    /\ frameCache' = ClearedCache(frameCache)
    /\ UNCHANGED <<edVersion, borderColorState, now>>

Moved(ss, id, x, y) ==
    [n \in 1..Len(ss) |->
        IF ss[n].id = id
        THEN [ss[n] EXCEPT !.x = x, !.y = y]
        ELSE ss[n]]

\* v1 only: the later versions leave the drag position to Draggable
updateStickerPosition(id, x, y) ==
    /\ edVersion = "v1"
    /\ stickers' = Moved(stickers, id, x, y)
    /\ frameCache' = ClearedCache(frameCache)
    /\ UNCHANGED <<edVersion, borderColorState, now>>

\* the ids a sticker's buttons and drag handle can pass to the handlers:
\* DraggableSticker is rendered once per sticker
ShownIds == {stickers[n].id : n \in 1..Len(stickers)}

(***************************************************************************)
(* PhotoEditor: the composite and its rasterization                        *)
(***************************************************************************)
\* the frame index the renderer uses for a burst:
\* displayFrameIndex === null ? burst.length - 1
\*                            : Math.min(displayFrameIndex, burst.length - 1)
RenderIndex_nullIsFirst(b, dfi) ==
    IF dfi = NullIndex THEN 0 ELSE Min(dfi, Len(b) - 1)

RenderIndex(b, dfi) ==
    IF dfi = NullIndex THEN Len(b) - 1 ELSE Min(dfi, Len(b) - 1)

\* burst[frameIndex]: undefined outside the burst
Undefined == Frame(0, 0, FALSE)

FrameAt(b, idx) == IF idx >= 0 /\ idx < Len(b) THEN b[idx + 1] ELSE Undefined

\* the src of every photo frame of the composite
Shown(dfi) ==
    [n \in 1..Len(edPhotos) |-> FrameAt(edPhotos[n], RenderIndex(edPhotos[n], dfi))]

\* html2canvas(exportRef.current): the raster of what the export container
\* shows when the document is cloned.  obj names the canvas object: every
\* export creates at most one canvas per frame it adds, so the creating
\* call, the number of the export and the number of the frame tell the
\* objects apart.
Snapshot ==
    [pos |-> displayFrameIndex, shown |-> Shown(displayFrameIndex),
     border |-> borderColorState, stickers |-> stickers, filter |-> edFilter,
     obj |-> <<"html2canvas", exports, currentFrame>>]

(***************************************************************************)
(* PhotoEditor: downloadImage                                              *)
(***************************************************************************)
\* the export buttons are disabled={isExporting}
ExportEnabled_always == exports < MaxExports

ExportEnabled == ~isExporting /\ exports < MaxExports

downloadImage(format) ==
    /\ ExportEnabled
    /\ isExporting' = TRUE
    /\ displayFrameIndex' = NullIndex
    /\ exPc' = "img_wait"
    /\ exFormat' = format
    /\ exports' = exports + 1
    /\ UNCHANGED <<gifProgress, exBorder, exLoop, exI, currentFrame,
                   gifFrames, exCanvas, encDone, files>>

\* after the waits: html2canvas resolves (ok) or throws into the catch
imageRasterized(ok) ==
    /\ exPc = "img_wait"
    /\ IF ok
       THEN /\ exCanvas' = Snapshot
            /\ exPc' = "img_blob"
            /\ UNCHANGED isExporting
       ELSE /\ isExporting' = FALSE
            /\ exPc' = "idle"
            /\ UNCHANGED exCanvas
    /\ UNCHANGED <<gifProgress, displayFrameIndex, exFormat, exBorder, exLoop,
                   exI, currentFrame, gifFrames, encDone, files, exports>>

\* the canvas.toBlob callback: with a blob the file is downloaded
imageBlob(blob) ==
    /\ exPc = "img_blob"
    /\ files' = IF blob THEN Append(files, exFormat) ELSE files
    /\ isExporting' = FALSE
    /\ exPc' = "idle"
    /\ exCanvas' = NoCanvas
    /\ UNCHANGED <<gifProgress, displayFrameIndex, exFormat, exBorder, exLoop,
                   exI, currentFrame, gifFrames, encDone, exports>>

(***************************************************************************)
(* PhotoEditor: downloadGif                                                *)
(***************************************************************************)
loops == 3

\* currentFrame % 5 === 0: the frame loop yields to the browser
YieldEvery == 5

\* photos[0]?.length || 1
burstLength ==
    IF Len(edPhotos) > 0 /\ Len(edPhotos[1]) > 0 THEN Len(edPhotos[1]) ELSE 1

totalFrames == loops * burstLength

\* Math.round(a / b) for a >= 0, b > 0
Round(a, b) == (2 * a + b) \div (2 * b)

\* Math.round((currentFrame / totalFrames) * 80)
CaptureProgress(cur) == Round(cur * 80, totalFrames)

\* the 'progress' handler for p = done / totalFrames:
\* Math.min(99, 80 + Math.round(Math.round(p * 100) * 0.19))
RenderProgress(done) ==
    Min(99, 80 + Round(Round(done * 100, totalFrames) * 19, 100))

\* `${frameIndex}-${filter}-${borderColorState}`, with the border colour of
\* the render whose downloadGif closure is running
CacheKey_noIndex(i) == <<0, edFilter, exBorder>>

CacheKey(i) == <<i, edFilter, exBorder>>

CacheSet_dropped(c, key, canvas) == c

CacheSet(c, key, canvas) ==
    [x \in DOMAIN c \cup {key} |-> IF x = key THEN canvas ELSE c[x]]

\* a cache hit is served as a new canvas with the cached one drawn onto it;
\* n is the number of the frame the canvas is made for
CloneCanvas(c, n) == [c EXCEPT !.obj = <<"createElement", exports, n>>]

\* the refusal of a burst that cannot animate (v1); the earlier versions
\* have no such guard
Refused == edVersion = "v1" /\ burstLength <= 1

\* The frame loop, run from (r.loop, r.i) until it has to wait: for a
\* rasterization (pc "raster"), for the timeout it yields with every fifth
\* frame (pc "yield"), or, past the last frame, for the encoder (pc "render").
\* Awaiting an already resolved getFrame lets no event in.
RECURSIVE RunLoop(_, _), AfterFrame(_, _, _)

\* gif.addFrame(canvas), currentFrame++, setGifProgress, the yield
AfterFrame(r, canvas, cache) ==
    LET cur == r.cur + 1
        last == r.i + 1 >= burstLength
        nxt == [r EXCEPT !.frames = Append(@, canvas),
                         !.cur = cur,
                         !.prog = CaptureProgress(cur),
                         !.i = IF last THEN 0 ELSE r.i + 1,
                         !.loop = IF last THEN r.loop + 1 ELSE r.loop]
    IN  IF cur % YieldEvery = 0
        THEN [nxt EXCEPT !.pc = "yield"]
        ELSE RunLoop(nxt, cache)

\* the loop tests and getFrame(i) up to its first await
RunLoop(r, cache) ==
    IF r.loop >= loops
    THEN [r EXCEPT !.pc = "render", !.dfi = NullIndex]
    ELSE IF CacheKey(r.i) \in DOMAIN cache
         THEN AfterFrame(r, CloneCanvas(cache[CacheKey(r.i)], r.cur), cache)
         ELSE [r EXCEPT !.pc = "raster", !.dfi = r.i]

\* the closure's loop state
LoopState ==
    [loop |-> exLoop, i |-> exI, cur |-> currentFrame, frames |-> gifFrames,
     prog |-> gifProgress, dfi |-> displayFrameIndex, pc |-> "run"]

\* where downloadGif waits after a run of the loop; "render" is
\* gif.render() with the handlers registered
LoopResult(r) ==
    /\ exLoop' = r.loop
    /\ exI' = r.i
    /\ currentFrame' = r.cur
    /\ gifFrames' = r.frames
    /\ gifProgress' = r.prog
    /\ displayFrameIndex' = r.dfi
    /\ exPc' = CASE r.pc = "raster" -> "gif_wait"
                 [] r.pc = "yield"  -> "gif_yield"
                 [] r.pc = "render" -> "gif_encoding"

\* downloadGif has returned: its locals (the GIF object with its frames, the
\* loop counters, the captured border colour) are gone
GifReturns ==
    /\ exPc' = "idle"
    /\ exBorder' = "#ffffff"
    /\ exLoop' = 0
    /\ exI' = 0
    /\ currentFrame' = 0
    /\ gifFrames' = <<>>
    /\ exCanvas' = NoCanvas
    /\ encDone' = 0

\* catch (err): setIsExporting(false); setDisplayFrameIndex(null)
gifCatch_keepsIndex ==
    /\ isExporting' = FALSE
    /\ UNCHANGED displayFrameIndex
    /\ GifReturns

gifCatch ==
    /\ isExporting' = FALSE
    /\ displayFrameIndex' = NullIndex
    /\ GifReturns

downloadGif ==
    /\ ExportEnabled
    /\ isExporting' = TRUE
    /\ exPc' = "gif_import"
    /\ exBorder' = borderColorState
    /\ exLoop' = 0
    /\ exI' = 0
    /\ currentFrame' = 0
    /\ gifFrames' = <<>>
    /\ encDone' = 0
    /\ exports' = exports + 1
    /\ UNCHANGED <<gifProgress, displayFrameIndex, exFormat, exCanvas, files>>

\* import("gif.js") resolves (ok) or rejects
gifImported(ok) ==
    /\ exPc = "gif_import"
    /\ IF ~ok
       THEN gifCatch
       ELSE IF Refused
            THEN /\ isExporting' = FALSE
                 /\ GifReturns
                 /\ UNCHANGED displayFrameIndex
            ELSE /\ displayFrameIndex' = 0
                 /\ exPc' = "gif_test"
                 /\ UNCHANGED <<isExporting, exBorder, exLoop, exI,
                                currentFrame, gifFrames, exCanvas, encDone>>
    /\ UNCHANGED <<gifProgress, exFormat, files, exports>>

\* the test frame: html2canvas resolves (ok) and the frame loop starts, or
\* it throws
gifTestFrame(ok) ==
    /\ exPc = "gif_test"
    /\ IF ok
       THEN /\ LoopResult(RunLoop(LoopState, frameCache))
            /\ UNCHANGED <<isExporting, exBorder, exCanvas, encDone>>
       ELSE /\ gifCatch
            /\ UNCHANGED gifProgress
    /\ UNCHANGED <<exFormat, files, exports>>

\* getFrame on a cache miss, after setDisplayFrameIndex and the waits:
\* html2canvas clones the document (ok) or throws
gifRasterize(ok) ==
    /\ exPc = "gif_wait"
    /\ IF ok
       THEN /\ exCanvas' = Snapshot
            /\ exPc' = "gif_rastered"
            /\ UNCHANGED <<isExporting, displayFrameIndex, exBorder, exLoop,
                           exI, currentFrame, gifFrames, encDone>>
       ELSE gifCatch
    /\ UNCHANGED <<gifProgress, exFormat, files, exports>>

\* html2canvas resolves: the canvas is cached and the loop goes on
gifFrameReady ==
    /\ exPc = "gif_rastered"
    /\ LET cache == CacheSet(frameCache, CacheKey(exI), exCanvas) IN
         /\ frameCache' = cache
         /\ LoopResult(AfterFrame(LoopState, exCanvas, cache))
    /\ UNCHANGED <<isExporting, exFormat, exBorder, exCanvas, encDone, files,
                   exports>>

\* the timeout of a yield fires
gifYielded ==
    /\ exPc = "gif_yield"
    /\ LoopResult(RunLoop(LoopState, frameCache))
    /\ UNCHANGED <<isExporting, exFormat, exBorder, exCanvas, encDone, files,
                   exports>>

\* the encoder reports one more finished frame: the 'progress' handler
gifProgressEvent ==
    /\ exPc = "gif_encoding"
    /\ encDone < totalFrames
    /\ encDone' = encDone + 1
    /\ gifProgress' = RenderProgress(encDone + 1)
    /\ UNCHANGED <<isExporting, displayFrameIndex, exPc, exFormat, exBorder,
                   exLoop, exI, currentFrame, gifFrames, exCanvas, files,
                   exports>>

\* the 'finished' handler: the file is downloaded, the cleanup timeout armed
gifFinished ==
    /\ exPc = "gif_encoding"
    /\ encDone = totalFrames
    /\ gifProgress' = 100
    /\ files' = Append(files, "gif")
    /\ exPc' = "gif_done"
    /\ UNCHANGED <<isExporting, displayFrameIndex, exFormat, exBorder, exLoop,
                   exI, currentFrame, gifFrames, exCanvas, encDone, exports>>

\* the cleanup timeout of the 'finished' handler
gifCleanup ==
    /\ exPc = "gif_done"
    /\ isExporting' = FALSE
    /\ gifProgress' = 0
    /\ GifReturns
    /\ UNCHANGED <<displayFrameIndex, exFormat, files, exports>>

\* the encoder fails after gif.render() (its worker script does not load,
\* a worker throws): no further event is delivered
gifEncoderFails ==
    /\ exPc = "gif_encoding"
    /\ exPc' = "gif_dead"
    /\ UNCHANGED <<isExporting, gifProgress, displayFrameIndex, exFormat,
                   exBorder, exLoop, exI, currentFrame, gifFrames, exCanvas,
                   encDone, files, exports>>

(***************************************************************************)
(* PhotoEditor: getFilterStyle and applyFilterToCanvas                     *)
(*                                                                         *)
(* A filter value is the CSS filter string, kept as the list of its        *)
(* functions with their argument texts.  Numbers with one decimal are      *)
(* counted in tenths and the arithmetic is exact; the pixel data is a      *)
(* Uint8ClampedArray, so every store rounds to the nearest integer (ties   *)
(* to even) and clamps to 0..255.  Exact and double arithmetic give the    *)
(* same stored values but where the exact value is a tie: the ties of the  *)
(* brightness pass are listed (TieRoundsUp); a weighted sum of three       *)
(* channels that is an exact tie is rounded as the exact value.            *)
(***************************************************************************)
CssFn(name, arg) == [fn |-> name, arg |-> arg]

\* getFilterStyle(f).filter || ''
getFilterStyle_normalAsBw(f) ==
    CASE f = "soft" ->
           <<CssFn("brightness", "1.1"), CssFn("contrast", "0.9"),
             CssFn("saturate", "0.8"), CssFn("blur", "0.5px")>>
      [] f = "vintage" ->
           <<CssFn("sepia", "0.5"), CssFn("contrast", "1.1"),
             CssFn("saturate", "0.8")>>
      [] OTHER -> <<CssFn("grayscale", "100%"), CssFn("contrast", "1.2")>>

getFilterStyle(f) ==
    CASE f = "bw" -> <<CssFn("grayscale", "100%"), CssFn("contrast", "1.2")>>
      [] f = "soft" ->
           <<CssFn("brightness", "1.1"), CssFn("contrast", "0.9"),
             CssFn("saturate", "0.8"), CssFn("blur", "0.5px")>>
      [] f = "vintage" ->
           <<CssFn("sepia", "0.5"), CssFn("contrast", "1.1"),
             CssFn("saturate", "0.8")>>
      [] OTHER -> <<>>

\* filterValue.includes(name)
Includes(fv, name) == \E n \in 1..Len(fv) : fv[n].fn = name

\* filterValue.match(/name\(([^)]+)\)/)[1]: the argument of the first name(
MatchArg(fv, name) ==
    LET n == CHOOSE m \in 1..Len(fv) :
                 /\ fv[m].fn = name
                 /\ \A k \in 1..(m - 1) : fv[k].fn # name
    IN fv[n].arg

\* parseFloat of an argument text, in tenths: a unit after the number is
\* not read
parseFloat(text) ==
    CASE text = "0.5"   -> 5
      [] text = "0.5px" -> 5
      [] text = "0.8"   -> 8
      [] text = "0.9"   -> 9
      [] text = "1.1"   -> 11
      [] text = "1.2"   -> 12
      [] text = "100%"  -> 1000

\* a / b for b > 0, rounded to the nearest integer, ties to even
RoundHalfEven(a, b) ==
    LET q == a \div b
        r == a % b
    IN IF 2 * r > b THEN q + 1
       ELSE IF 2 * r < b THEN q
       ELSE IF q % 2 = 0 THEN q ELSE q + 1

\* data[i] = a / b: the value the Uint8ClampedArray keeps
Store(a, b) ==
    LET v == IF b > 0 THEN RoundHalfEven(a, b) ELSE RoundHalfEven(-a, -b)
    IN Max(0, Min(255, v))

\* r * 0.299 + g * 0.587 + b * 0.114, in thousandths
Luma(p) == 299 * p.r + 587 * p.g + 114 * p.b

Grayscale(p) ==
    LET gray == Store(Luma(p), 1000)
    IN [p EXCEPT !.r = gray, !.g = gray, !.b = gray]

\* factor = (259 * (c * 255 + 255)) / (255 * (259 - c * 255)) for c = ct / 10,
\* as numerator and denominator (both doubled)
FactorNum(ct) == 259 * (51 * ct + 510)

FactorDen(ct) == 255 * (518 - 51 * ct)

\* Math.max(0, Math.min(255, factor * (v - 128) + 128))
ContrastStep(ct, v) ==
    Store(FactorNum(ct) * (v - 128) + 128 * FactorDen(ct), FactorDen(ct))

Contrast(p, ct) ==
    [p EXCEPT !.r = ContrastStep(ct, p.r),
              !.g = ContrastStep(ct, p.g),
              !.b = ContrastStep(ct, p.b)]

\* the sepia matrix at strength sv / 10, in ten-thousandths
Sepia(p, sv) ==
    [p EXCEPT
       !.r = Store(p.r * (10000 - 607 * sv) + p.g * 769 * sv + p.b * 189 * sv,
                   10000),
       !.g = Store(p.r * 349 * sv + p.g * (10000 - 314 * sv) + p.b * 168 * sv,
                   10000),
       !.b = Store(p.r * 272 * sv + p.g * 534 * sv + p.b * (10000 - 869 * sv),
                   10000)]

\* In double arithmetic v * 1.1 is the double next above the tie k + 0.5,
\* k even, for these v: the store rounds it up to k + 1
TieRoundsUp == {55, 95, 115, 175, 195, 215}

\* Math.min(255, v * brightnessValue)
BrightnessStep(v, bv) ==
    IF bv = 11 /\ v \in TieRoundsUp
    THEN Min(255, Store(v * bv, 10) + 1)
    ELSE Store(v * bv, 10)

Brightness(p, bv) ==
    [p EXCEPT !.r = BrightnessStep(p.r, bv),
              !.g = BrightnessStep(p.g, bv),
              !.b = BrightnessStep(p.b, bv)]

\* gray + (v - gray) * saturateValue with the unrounded gray, in
\* ten-thousandths
SaturateStep(p, v, sv) == Store(Luma(p) * (10 - sv) + 1000 * v * sv, 10000)

Saturate(p, sv) ==
    [p EXCEPT !.r = SaturateStep(p, p.r, sv),
              !.g = SaturateStep(p, p.g, sv),
              !.b = SaturateStep(p, p.b, sv)]

\* the five passes over one pixel, in the order of the source
FilterPixel(p, fv) ==
    LET p1 == IF Includes(fv, "grayscale") THEN Grayscale(p) ELSE p
        p2 == IF Includes(fv, "contrast")
              THEN Contrast(p1, parseFloat(MatchArg(fv, "contrast")))
              ELSE p1
        p3 == IF Includes(fv, "sepia")
              THEN Sepia(p2, parseFloat(MatchArg(fv, "sepia")))
              ELSE p2
        p4 == IF Includes(fv, "brightness")
              THEN Brightness(p3, parseFloat(MatchArg(fv, "brightness")))
              ELSE p3
    IN IF Includes(fv, "saturate")
       THEN Saturate(p4, parseFloat(MatchArg(fv, "saturate")))
       ELSE p4

\* the pixel data applyFilterToCanvas(canvas, filterValue) puts back
Filtered(data, fv) ==
    IF fv = <<>> THEN data ELSE [n \in 1..Len(data) |-> FilterPixel(data[n], fv)]

\* the canvases whose pixels are filtered
Canvases == {"first", "second"}

\* a canvas nothing was drawn on
NoPixels ==
    [c \in Canvases |->
        [raw |-> <<>>, data |-> <<>>, filter |-> "normal", applied |-> FALSE]]

\* applyFilterToCanvas(canvas, getFilterStyle(f).filter || '') on a canvas
\* with a 2d context
applyFilterToCanvas(c, f) ==
    /\ ~canvasPixels[c].applied
    /\ canvasPixels' =
         [canvasPixels EXCEPT
            ![c] = [raw |-> canvasPixels[c].raw,
                    data |-> Filtered(canvasPixels[c].data, getFilterStyle(f)),
                    filter |-> f,
                    applied |-> TRUE]]

(***************************************************************************)
(* The capture specification: BoothPage and Camera up to the hand-over     *)
(***************************************************************************)
\* PhotoEditor as it mounts: its useState and useRef initial values
EditorMounts ==
    /\ borderColorState = "#ffffff"
    /\ stickers = <<>>
    /\ isExporting = FALSE
    /\ gifProgress = 0
    /\ displayFrameIndex = NullIndex
    /\ frameCache = EmptyCache
    /\ now = 1
    /\ exPc = "idle"
    /\ exFormat = "png"
    /\ exBorder = "#ffffff"
    /\ exLoop = 0
    /\ exI = 0
    /\ currentFrame = 0
    /\ gifFrames = <<>>
    /\ exCanvas = NoCanvas
    /\ encDone = 0
    /\ files = <<>>
    /\ edits = 0
    /\ exports = 0
    /\ canvasPixels = NoPixels

CamInit ==
    /\ camVersion \in {"precapture", "burst"}
    /\ step = "layout"
    /\ selectedLayout = NoLayout
    /\ capturedPhotos = <<>>
    /\ selectedFilter = "normal"
    /\ photos = <<>>
    /\ isCapturing = FALSE
    /\ countdown = NoCount
    /\ filter = "normal"
    /\ currentCount = 0
    /\ countdownTimer = FALSE
    /\ captureTimer = FALSE
    /\ burstRef = <<>>
    /\ sampleNo = 0
    /\ burstPc = "idle"
    /\ burstI = 0
    /\ burst = <<>>
    /\ misses = 0
    /\ mounted = TRUE
    /\ hasVideoInput \in BOOLEAN
    /\ edVersion = "v1"
    /\ EditorMounts

CamTimers ==
    \/ captureTick
    \/ countdownTick
    \/ countdownZeroPre
    \/ countdownZeroBurst
    \/ burstIteration
    \/ burstEnd

\* what a Camera or BoothPage step leaves alone
CamFrame == UNCHANGED <<edVars, mounted, hasVideoInput, canvasPixels>>

CamNext ==
    \/ \E l \in Layouts : handleLayoutSelect(l) /\ CamFrame
    \/ \E f \in Filters : setFilter(f) /\ CamFrame
    \/ startSession /\ CamFrame
    \/ captureTick /\ CamFrame
    \/ countdownTick /\ CamFrame
    \/ countdownZeroPre /\ CamFrame
    \/ countdownZeroBurst /\ CamFrame
    \/ burstIteration /\ CamFrame
    \/ burstEnd /\ CamFrame
    \/ navigateAway /\ UNCHANGED <<edVars, canvasPixels>>

CamSpec == CamInit /\ [][CamNext]_vars

\* the browser fires every armed timer
CamFairSpec == CamSpec /\ WF_vars(CamTimers /\ CamFrame)

(***************************************************************************)
(* The editor specifications: PhotoEditor from the hand-over on            *)
(***************************************************************************)
\* a burst of len frames as part_002 commits it
FullBurst(shot, len) == [j \in 1..len |-> Frame(shot, j, FALSE)]

\* a Photo Set whose first burst has a frames and whose other bursts have b
PhotoSet(l, a, b) ==
    [n \in 1..LayoutCount(l) |-> FullBurst(n, IF n = 1 THEN a ELSE b)]

\* the layouts and filters the editor specifications start from
EdLayouts == {"3-diagonal"}

EdFilters == {"bw"}

\* v2 has an effect that rasterizes the frames in the background once the
\* first burst has more than one frame; with a first burst of one frame the
\* effect returns at once.  The v2 editor is modelled for such Photo Sets.
PreCaptureIdle == burstLength <= 1

\* BoothPage in the edit step: Camera is unmounted, its state is gone
EdInit ==
    /\ camVersion = "burst"
    /\ step = "edit"
    /\ selectedLayout \in EdLayouts
    /\ \E a \in 1..BurstCount, b \in 1..BurstCount :
         capturedPhotos = PhotoSet(selectedLayout, a, b)
    /\ selectedFilter \in EdFilters
    /\ photos = <<>>
    /\ isCapturing = FALSE
    /\ countdown = NoCount
    /\ filter = "normal"
    /\ currentCount = 0
    /\ countdownTimer = FALSE
    /\ captureTimer = FALSE
    /\ burstRef = <<>>
    /\ sampleNo = 0
    /\ burstPc = "idle"
    /\ burstI = 0
    /\ burst = <<>>
    /\ misses = 0
    /\ mounted = TRUE
    /\ hasVideoInput = TRUE
    /\ edVersion \in {"v1", "v2"}
    /\ edVersion = "v2" => PreCaptureIdle
    /\ EditorMounts

\* the inputs of the edits that run beside an export
EdGlyphs == {"heart"}

EdDragStops == {<<25, 40>>}

EdColors == {"#ffffff", "#000000"}

\* what the browser delivers to a running export: timers, promises, events
ExportDelivery ==
    \/ \E ok \in BOOLEAN : imageRasterized(ok)
    \/ \E blob \in BOOLEAN : imageBlob(blob)
    \/ \E ok \in BOOLEAN : gifImported(ok)
    \/ \E ok \in BOOLEAN : gifTestFrame(ok)
    \/ \E ok \in BOOLEAN : gifRasterize(ok)
    \/ gifYielded
    \/ gifProgressEvent
    \/ gifFinished
    \/ gifCleanup

ExFrame_keepsFirstFrames ==
    /\ capturedPhotos' =
         [n \in 1..Len(capturedPhotos) |-> SubSeq(capturedPhotos[n], 1, 1)]
    /\ UNCHANGED <<camVersion, step, selectedLayout, selectedFilter, photos,
                   isCapturing, countdown, filter, currentCount,
                   countdownTimer, captureTimer, burstRef, sampleNo, burstPc,
                   burstI, burst, misses, mounted, hasVideoInput, edVersion,
                   borderColorState, stickerVars, edits, frameCache,
                   canvasPixels>>

\* what an export step leaves alone
ExFrame ==
    UNCHANGED <<camVars, edVersion, borderColorState, stickerVars, edits,
                frameCache, canvasPixels>>

\* what an edit leaves alone
EditFrame ==
    /\ edits < MaxEdits
    /\ edits' = edits + 1
    /\ UNCHANGED <<camVars, exportVars, canvasPixels>>

EdNext ==
    \/ \E c \in EdGlyphs :
         addSticker(c, now) /\ Len(stickers) < MaxStickers /\ EditFrame
    \/ \E id \in ShownIds : removeSticker(id) /\ EditFrame
    \/ \E id \in ShownIds, d \in ResizeDeltas : resizeSticker(id, d) /\ EditFrame
    \/ \E id \in ShownIds, xy \in EdDragStops :
         updateStickerPosition(id, xy[1], xy[2]) /\ EditFrame
    \/ \E c \in EdColors : setBorderColor(c) /\ EditFrame
    \/ \E fmt \in {"png", "jpg"} : downloadImage(fmt) /\ ExFrame
    \/ \E ok \in BOOLEAN : imageRasterized(ok) /\ ExFrame
    \/ \E blob \in BOOLEAN : imageBlob(blob) /\ ExFrame
    \/ downloadGif /\ ExFrame
    \/ \E ok \in BOOLEAN : gifImported(ok) /\ ExFrame
    \/ \E ok \in BOOLEAN : gifTestFrame(ok) /\ ExFrame
    \/ \E ok \in BOOLEAN : gifRasterize(ok) /\ ExFrame
    \/ gifFrameReady
         /\ UNCHANGED <<camVars, edVersion, borderColorState, stickerVars,
                        edits, canvasPixels>>
    \/ gifYielded /\ ExFrame
    \/ gifProgressEvent /\ ExFrame
    \/ gifFinished /\ ExFrame
    \/ gifCleanup /\ ExFrame
    \/ gifEncoderFails /\ ExFrame

EdSpec == EdInit /\ [][EdNext]_vars

\* the browser delivers what a running export waits for; the encoder, once
\* it has failed, delivers nothing
EdFairSpec ==
    /\ EdSpec
    /\ WF_vars(ExportDelivery /\ ExFrame)
    /\ WF_vars(gifFrameReady
                /\ UNCHANGED <<camVars, edVersion, borderColorState,
                               stickerVars, edits, canvasPixels>>)

\* the sticker operations alone, without a bound on their number
StickerFrame == UNCHANGED <<camVars, exportVars, edits, canvasPixels>>

StickerNext ==
    \/ \E c \in Glyphs, t \in 1..MaxClock :
         addSticker(c, t) /\ Len(stickers) < MaxStickers /\ StickerFrame
    \/ \E id \in ShownIds : removeSticker(id) /\ StickerFrame
    \/ \E id \in ShownIds, d \in ResizeDeltas :
         resizeSticker(id, d) /\ StickerFrame
    \/ \E id \in ShownIds, xy \in DragStops :
         updateStickerPosition(id, xy[1], xy[2]) /\ StickerFrame

\* the sticker operations do not read the Photo Set: one Photo Set is enough
StickerInit == EdInit /\ capturedPhotos = PhotoSet(selectedLayout, 1, 1)

StickerSpec == StickerInit /\ [][StickerNext]_vars

\* the sticker operations on up to MaxIdStickers stickers, the clock free to
\* stand still between two adds
IdFrame ==
    /\ edits < MaxIdOps
    /\ edits' = edits + 1
    /\ UNCHANGED <<camVars, exportVars, canvasPixels>>

IdNext ==
    \/ \E c \in EdGlyphs, t \in 1..MaxClock :
         addSticker(c, t) /\ Len(stickers) < MaxIdStickers /\ IdFrame
    \/ \E id \in ShownIds : removeSticker(id) /\ IdFrame
    \/ \E id \in ShownIds, d \in ResizeDeltas : resizeSticker(id, d) /\ IdFrame
    \/ \E id \in ShownIds, xy \in EdDragStops :
         updateStickerPosition(id, xy[1], xy[2]) /\ IdFrame

IdSpec == StickerInit /\ [][IdNext]_vars

(***************************************************************************)
(* The pixel filter specification: applyFilterToCanvas on two canvases     *)
(***************************************************************************)
\* the channel values the canvases are drawn with
Levels == {0, 126, 131, 255}

\* the pixel data of a canvas of one opaque pixel
Drawn ==
    {<<[r |-> r, g |-> g, b |-> b, a |-> 255]>> : r \in Levels, g \in Levels,
                                                   b \in Levels}

PixelInit ==
    /\ camVersion = "burst"
    /\ step = "edit"
    /\ selectedLayout = "3-diagonal"
    /\ capturedPhotos = PhotoSet(selectedLayout, 1, 1)
    /\ selectedFilter = "normal"
    /\ photos = <<>>
    /\ isCapturing = FALSE
    /\ countdown = NoCount
    /\ filter = "normal"
    /\ currentCount = 0
    /\ countdownTimer = FALSE
    /\ captureTimer = FALSE
    /\ burstRef = <<>>
    /\ sampleNo = 0
    /\ burstPc = "idle"
    /\ burstI = 0
    /\ burst = <<>>
    /\ misses = 0
    /\ mounted = TRUE
    /\ hasVideoInput = TRUE
    /\ edVersion = "v2"
    /\ borderColorState = "#ffffff"
    /\ stickers = <<>>
    /\ isExporting = FALSE
    /\ gifProgress = 0
    /\ displayFrameIndex = NullIndex
    /\ frameCache = EmptyCache
    /\ now = 1
    /\ exPc = "idle"
    /\ exFormat = "png"
    /\ exBorder = "#ffffff"
    /\ exLoop = 0
    /\ exI = 0
    /\ currentFrame = 0
    /\ gifFrames = <<>>
    /\ exCanvas = NoCanvas
    /\ encDone = 0
    /\ files = <<>>
    /\ edits = 0
    /\ exports = 0
    /\ \E d1 \in Drawn, d2 \in Drawn :
         canvasPixels =
            [c \in Canvases |->
                [raw |-> IF c = "first" THEN d1 ELSE d2,
                 data |-> IF c = "first" THEN d1 ELSE d2,
                 filter |-> "normal",
                 applied |-> FALSE]]

PixelNext ==
    \E c \in Canvases, f \in Filters :
        applyFilterToCanvas(c, f) /\ UNCHANGED <<camVars, edVars>>

PixelSpec == PixelInit /\ [][PixelNext]_vars

(***************************************************************************)
(* Properties of the capture session                                       *)
(***************************************************************************)
\* C1: for every layout, while the Camera is shown the number of committed
\* bursts never exceeds LAYOUT_CONFIG[layout].count, and in the edit step the
\* Photo Set handed to the editor holds exactly that many bursts.
C1_ShotCount ==
    /\ step = "camera" => Len(photos) <= LayoutCount(selectedLayout)
    /\ step = "edit" => Len(capturedPhotos) = LayoutCount(selectedLayout)

\* a six-shot session has been handed to the editor
C1_Handed ==
    /\ step = "edit"
    /\ selectedLayout = "6-grid"
    /\ Len(capturedPhotos) = 6

\* C2: every committed burst holds at least one frame, whatever the pattern
\* of hits and misses of getScreenshot().
C2_BurstNonEmpty ==
    /\ \A n \in 1..Len(photos) : Len(photos[n]) >= 1
    /\ \A n \in 1..Len(capturedPhotos) : Len(capturedPhotos[n]) >= 1

\* C3: a started session that the user does not leave eventually hands the
\* full Photo Set and the selected filter to onComplete, whatever the
\* pattern of misses.
C3_Completes ==
    (isCapturing /\ mounted)
        ~> (\/ ~mounted
            \/ /\ step = "edit"
               /\ Len(capturedPhotos) = LayoutCount(selectedLayout)
               /\ selectedFilter = filter)

(***************************************************************************)
(* Properties of the editor                                                *)
(***************************************************************************)
\* a step of one of the five operations that change the border colour or
\* the stickers
MutatorStep ==
    \/ \E c \in BORDER_COLORS : setBorderColor(c)
    \/ \E c \in Glyphs, t \in 1..MaxClock : addSticker(c, t)
    \/ \E id \in ShownIds : removeSticker(id)
    \/ \E id \in ShownIds, d \in ResizeDeltas : resizeSticker(id, d)
    \/ \E id \in ShownIds, xy \in DragStops :
         updateStickerPosition(id, xy[1], xy[2])

\* C4: immediately after setBorderColor, addSticker, removeSticker,
\* resizeSticker and updateStickerPosition the Frame Cache is empty.
C4_CacheCleared == [][MutatorStep => frameCache' = EmptyCache]_vars

\* a GIF export has added a frame (so the cache held a canvas) and an edit
\* has since emptied the cache
C4_ClearedWhileExporting ==
    /\ exPc \in {"gif_wait", "gif_rastered"}
    /\ currentFrame > 0
    /\ edits > 0
    /\ frameCache = EmptyCache

\* the GIF export holds frames or waits for some
GifUnderWay ==
    exPc \in {"gif_test", "gif_wait", "gif_rastered", "gif_yield",
              "gif_encoding", "gif_done", "gif_dead"}

\* C5: with a burst length of at most 1 a GIF export is refused: no frame
\* reaches the encoder, no GIF file is produced, the export does not go on.
C5_Refused ==
    burstLength <= 1 =>
        /\ gifFrames = <<>>
        /\ \A n \in 1..Len(files) : files[n] # "gif"
        /\ ~GifUnderWay
        /\ displayFrameIndex = NullIndex

\* C6: the positions of the frames handed to gif.addFrame are 0..k-1, in
\* this order, once per loop; when gif.render() is called there are 3*k.
C6_FrameOrder ==
    /\ \A n \in 1..Len(gifFrames) : gifFrames[n].pos = (n - 1) % burstLength
    /\ exPc = "gif_encoding" => Len(gifFrames) = loops * burstLength

\* gif.render() is reached in an export in which an edit emptied the cache
\* after the first loop had filled it: frames of both origins were added
C6_Rendered ==
    /\ exPc = "gif_encoding"
    /\ burstLength > 1
    /\ edits > 0
    /\ Len(gifFrames) = loops * burstLength
    /\ \E n \in 1..Len(gifFrames) : gifFrames[n].stickers # gifFrames[1].stickers

ScaleInRange ==
    \A n \in 1..Len(stickers) : stickers[n].scale \in ScaleMin..ScaleMax

\* a resize step that pushes a sticker against the bound it stands at
\* leaves the scale of that sticker as it was
BoundaryResize ==
    \A id \in ShownIds, d \in ResizeDeltas :
        resizeSticker(id, d) =>
            \A n \in 1..Len(stickers) :
                (/\ stickers[n].id = id
                 /\ \/ stickers[n].scale = ScaleMax /\ d = 1
                    \/ stickers[n].scale = ScaleMin /\ d = -1)
                => stickers'[n].scale = stickers[n].scale

\* C7: after any sequence of sticker operations every scale lies in
\* [0.5, 3.0]; +0.1 at 3.0 and -0.1 at 0.5 leave the scale unchanged.
C7_ScaleClamped == []ScaleInRange /\ [][BoundaryResize]_vars

\* a sticker has been dragged and enlarged up to the upper bound
C7_AtCeiling ==
    \E n \in 1..Len(stickers) :
        stickers[n].scale = ScaleMax /\ stickers[n].x # 0

\* html2canvas throws in a still export, at the test frame of a GIF export
\* or at one of its frames
RasterFails ==
    \/ imageRasterized(FALSE)
    \/ gifTestFrame(FALSE)
    \/ gifRasterize(FALSE)

\* C8: a rasterization failure aborts the export and leaves the editor as
\* it was before the export started.  Stated for the first export of an
\* editor that has seen no edit: before that export the editor is as mounted.
C8_AbortRestores ==
    [][(RasterFails /\ exports = 1 /\ edits = 0) =>
          /\ isExporting' = FALSE
          /\ files' = <<>>
          /\ stickers' = <<>>
          /\ borderColorState' = "#ffffff"
          /\ capturedPhotos' = capturedPhotos
          /\ displayFrameIndex' = NullIndex
          /\ gifProgress' = 0
          /\ frameCache' = EmptyCache]_vars

\* C9: every started export eventually resets isExporting.
C9_ExportEnds == isExporting ~> ~isExporting

\* C10: the reported progress is round(80 * framesAdded / totalFrames)
\* while frames are captured, within 80..99 while the encoder runs, and 100
\* only when the encoder has finished.
C10_Progress ==
    /\ exPc \in {"gif_test", "gif_wait", "gif_rastered", "gif_yield"}
         => gifProgress = CaptureProgress(currentFrame)
    /\ exPc = "gif_encoding" => gifProgress \in 80..99
    /\ gifProgress = 100 => exPc = "gif_done"

\* the length of the shortest burst of the Photo Set
ShortestBurst ==
    CHOOSE m \in {Len(edPhotos[n]) : n \in 1..Len(edPhotos)} :
        \A n \in 1..Len(edPhotos) : m <= Len(edPhotos[n])

\* C11: a GIF export cycles, per loop, as many frame positions as the
\* shortest burst of the Photo Set has frames: when gif.render() is called
\* the encoder holds loops times that many frames.
C11_ShortestCycled ==
    exPc = "gif_encoding" => Len(gifFrames) = loops * ShortestBurst

\* what the composite shows with every burst at its own last frame
LastShown ==
    [n \in 1..Len(edPhotos) |->
        FrameAt(edPhotos[n], RenderIndex(edPhotos[n], Len(edPhotos[n]) - 1))]

\* C12: for every burst the frame shown with displayFrameIndex = null is
\* the frame shown with displayFrameIndex = burst.length - 1; a still
\* export, rasterized at null, shows every burst at its last frame.
C12_NullIsLast ==
    /\ Shown(NullIndex) = LastShown
    /\ exPc = "img_blob" => exCanvas.shown = LastShown

\* a still export has been rasterized after a GIF export cycled the
\* positions of a Photo Set with bursts of differing lengths
C12_StillAfterGif ==
    /\ exPc = "img_blob"
    /\ exports = 2
    /\ frameCache # EmptyCache
    /\ \E n \in 1..Len(edPhotos) : Len(edPhotos[n]) # Len(edPhotos[1])

(***************************************************************************)
(* Properties of the Camera and the booth page                             *)
(***************************************************************************)
\* C13: on a machine without a video input device Start Capture begins no
\* capture: isCapturing stays false, no countdown runs, no burst is committed.
C13_BlockedWithoutDevice ==
    ~hasVideoInput =>
        /\ ~isCapturing
        /\ countdown = NoCount
        /\ ~countdownTimer
        /\ photos = <<>>

\* C14: once the Camera is unmounted no capture timer is in flight: neither
\* the countdown interval nor the sampling interval nor a timeout of the
\* burst loop.
C14_TimersCleared ==
    ~mounted => ~countdownTimer /\ ~captureTimer /\ burstPc # "loop"

(***************************************************************************)
(* Properties of the editor, continued                                     *)
(***************************************************************************)
\* C15: no step of the editor (sticker operations, border colour, still and
\* GIF export) changes the Photo Set it was handed.
C15_PhotoSetKept == [][capturedPhotos' = capturedPhotos]_vars

\* a sticker is on the strip and an export has produced a file
C15_EditedAndExported ==
    /\ stickers # <<>>
    /\ files # <<>>
    /\ burstLength > 1

\* the canvas objects the Frame Cache holds
CachedObjects == {frameCache[key].obj : key \in DOMAIN frameCache}

\* C16: no canvas handed to the GIF encoder is an object stored
\* in the Frame Cache.
C16_NeverCachedObject ==
    \A n \in 1..Len(gifFrames) : gifFrames[n].obj \notin CachedObjects


(***************************************************************************)
(* Properties of the booth session                                         *)
(***************************************************************************)
\* a capture session is under way: startSession has run and onComplete has
\* not
SessionUnderWay == step = "camera" /\ (isCapturing \/ photos # <<>>)

\* C17: from startSession until onComplete no step changes the Camera's
\* filter, and the filter the editor is handed is the Camera's filter, the
\* one under which every burst was taken.
C17_FilterFixed ==
    /\ [](step = "edit" => selectedFilter = filter)
    /\ [][SessionUnderWay => filter' = filter]_vars

\* the editor is reached with a filter the user chose before the session
C17_ChosenFilterHanded ==
    /\ step = "edit"
    /\ selectedFilter = "vintage"
    /\ Len(capturedPhotos) = LayoutCount(selectedLayout)

\* the place of a step in the order layout, camera, edit
StepRank(s) ==
    CASE s = "layout" -> 0
      [] s = "camera" -> 1
      [] s = "edit"   -> 2

\* C18: within one page load the step moves only from layout to camera and
\* from camera to edit; the layout is set in the step that leaves the layout
\* step, to a layout, and in no other; camera and edit have a layout.
C18_StepsForward ==
    /\ [](step # "layout" => selectedLayout \in Layouts)
    /\ [][/\ step' # step => StepRank(step') = StepRank(step) + 1
          /\ selectedLayout' # selectedLayout
                => step = "layout" /\ step' = "camera"
          /\ (step = "layout" /\ step' = "camera")
                => selectedLayout = NoLayout /\ selectedLayout' \in Layouts
         ]_vars

\* the editor is reached with the layout chosen at the start
C18_EditorReached == step = "edit" /\ selectedLayout = "3-diagonal"


(***************************************************************************)
(* Properties of the Frame Cache under interleaving                        *)
(***************************************************************************)
\* the canvas stored under key shows frame key[1] under the filter, border
\* colour and stickers now in effect, and key names that filter and border
CacheEntryCurrent(key) ==
    /\ frameCache[key].pos = key[1]
    /\ frameCache[key].filter = edFilter /\ key[2] = edFilter
    /\ frameCache[key].border = borderColorState /\ key[3] = borderColorState
    /\ frameCache[key].stickers = stickers

\* C19: however GIF export and edits interleave, every canvas in the Frame
\* Cache was rasterized from the visual state now in effect and is stored
\* under that state's key: a rasterization begun before an edit does not
\* write into the cache the edit has cleared.
C19_CacheCurrent == \A key \in DOMAIN frameCache : CacheEntryCurrent(key)


\* the GIF export has made its first access to the Frame Cache and its last
\* is still to come: a rasterization is awaited, or the loop has yielded with
\* frames left to get
CacheInUse ==
    \/ exPc \in {"gif_wait", "gif_rastered"}
    \/ exPc = "gif_yield" /\ currentFrame < totalFrames

\* C20: while a GIF export is between its first and its last access to the
\* Frame Cache no edit touches the cache (every mutator clears it).
C20_OneAtATime == [][CacheInUse => ~MutatorStep]_vars


(***************************************************************************)
(* Properties of the export flag                                           *)
(***************************************************************************)
\* an export has started and has neither produced its file nor failed
ExportWorking ==
    exPc \in {"img_wait", "img_blob", "gif_import", "gif_test", "gif_wait",
              "gif_rastered", "gif_yield", "gif_encoding"}

\* C21: an export starts only while isExporting is false and no other export
\* is at work, and isExporting is true for as long as the export has neither
\* produced its file nor failed.
C21_OneExport ==
    /\ [](ExportWorking => isExporting)
    /\ [][exports' # exports
            => ~isExporting /\ ~ExportWorking /\ isExporting']_vars

\* a second export is at work after the first has delivered its file
C21_SecondExport == exports = 2 /\ ExportWorking /\ files # <<>>


\* C22: while no export is in progress displayFrameIndex is null, and a
\* still export rasterizes with displayFrameIndex null: the canvas it gets
\* shows the last-frame selection.
C22_IdleShowsLast ==
    /\ ~isExporting => displayFrameIndex = NullIndex
    /\ exPc = "img_wait" => displayFrameIndex = NullIndex
    /\ exPc = "img_blob" => exCanvas.pos = NullIndex

\* no export is in progress after a GIF export has delivered its file
C22_AfterGif ==
    /\ ~isExporting
    /\ \E n \in 1..Len(files) : files[n] = "gif"


(***************************************************************************)
(* Properties of the bursts the Camera commits                             *)
(***************************************************************************)
\* the values displayFrameIndex takes: null, or a frame position
DisplayIndexes == {NullIndex} \cup 0..BurstCount

\* C23: for every burst the Camera has committed and every displayFrameIndex
\* the frame index the renderer uses is a position of the burst.
C23_IndexInBurst ==
    \A n \in 1..Len(photos) : \A dfi \in DisplayIndexes :
        RenderIndex(photos[n], dfi) \in 0..(Len(photos[n]) - 1)


\* the frames of b are in the order of their sampling
InSampleOrder(b) == \A j \in 1..(Len(b) - 1) : b[j].k < b[j + 1].k

\* C24: in the pre-capture Camera every committed burst holds its frames in
\* the order they were sampled and ends with the forced final capture; a
\* step that commits a burst leaves no timer of that shot running (a timer
\* running afterwards belongs to the next shot, armed anew).
C24_FinalCaptureLast ==
    /\ [](camVersion = "precapture" =>
            \A n \in 1..Len(photos) :
                /\ InSampleOrder(photos[n])
                /\ Len(photos[n]) > 0 => photos[n][Len(photos[n])].final)
    /\ [][(camVersion = "precapture" /\ Len(photos') > Len(photos)
             /\ (countdownTimer' \/ captureTimer'))
            => (burstRef' = <<>> /\ sampleNo' = 0
                  /\ currentCount' = timerDuration)]_vars


\* C25: every frame of the n-th committed burst was sampled for shot n,
\* between the start of that shot's countdown and its commit, and no step
\* changes a burst once it is committed.
C25_OwnFramesOnly ==
    /\ [](\A n \in 1..Len(photos) : \A j \in 1..Len(photos[n]) :
            photos[n][j].shot = n)
    /\ [][\A n \in 1..Len(photos) :
            Len(photos') >= n /\ photos'[n] = photos[n]]_vars

\* two shots are committed, each with all the frames sampled for it
C25_TwoFullBursts ==
    /\ Len(photos) >= 2
    /\ Len(photos[1]) = 2
    /\ Len(photos[2]) = 2



(***************************************************************************)
(* Properties of the sticker operations addressed by id                    *)
(***************************************************************************)
\* the ids a handler can be called with: the clock readings
StickerIds == 1..MaxClock

\* the stickers of ss whose id is not id, in their order
RECURSIVE Without(_, _)
Without(ss, id) ==
    IF ss = <<>>
    THEN <<>>
    ELSE IF Head(ss).id = id
         THEN Without(Tail(ss), id)
         ELSE <<Head(ss)>> \o Without(Tail(ss), id)

\* sticker n is the same before and after the step but for its scale
SameButScale(n) ==
    /\ stickers'[n].id = stickers[n].id
    /\ stickers'[n].content = stickers[n].content
    /\ stickers'[n].x = stickers[n].x
    /\ stickers'[n].y = stickers[n].y

\* sticker n is the same before and after the step but for its position
SameButPosition(n) ==
    /\ stickers'[n].id = stickers[n].id
    /\ stickers'[n].content = stickers[n].content
    /\ stickers'[n].scale = stickers[n].scale

\* the stickers with another id than id are the same, at the same places
OthersKept(id) ==
    /\ Len(stickers') = Len(stickers)
    /\ \A n \in 1..Len(stickers) :
          stickers[n].id # id => stickers'[n] = stickers[n]

\* C26: resizeSticker(id, d) changes nothing but the scale of the stickers
\* with that id, updateStickerPosition(id, x, y) nothing but their position,
\* removeSticker(id) deletes them and keeps the others in their order; the
\* border colour is untouched, and for an id no sticker has the three
\* operations leave the stickers as they are.
C26_OnlyAddressed ==
    /\ [](\A id \in StickerIds \ ShownIds :
            /\ RemoveById(stickers, id) = stickers
            /\ \A d \in ResizeDeltas : Resized(stickers, id, d) = stickers
            /\ \A xy \in DragStops :
                  Moved(stickers, id, xy[1], xy[2]) = stickers)
    /\ [][\A id \in StickerIds :
            /\ (\E d \in ResizeDeltas : resizeSticker(id, d))
                  => /\ OthersKept(id)
                     /\ \A n \in 1..Len(stickers) : SameButScale(n)
                     /\ borderColorState' = borderColorState
            /\ (\E xy \in DragStops : updateStickerPosition(id, xy[1], xy[2]))
                  => /\ OthersKept(id)
                     /\ \A n \in 1..Len(stickers) : SameButPosition(n)
                     /\ borderColorState' = borderColorState
            /\ removeSticker(id)
                  => /\ stickers' = Without(stickers, id)
                     /\ borderColorState' = borderColorState]_vars

\* two stickers with different ids, one resized and moved, the other as it
\* was added
C26_OneOfTwoChanged ==
    /\ Len(stickers) = 2
    /\ stickers[1].id # stickers[2].id
    /\ stickers[1].scale # ScaleOne
    /\ stickers[1].x # 0
    /\ stickers[2] = NewSticker(stickers[2].id, stickers[2].content)

\* C27: after any sequence of addSticker and removeSticker the stickers have
\* pairwise distinct ids.
C27_DistinctIds ==
    \A m, n \in 1..Len(stickers) : m # n => stickers[m].id # stickers[n].id


(***************************************************************************)
(* Properties of the frame loop and the Frame Cache                        *)
(***************************************************************************)
\* the n-th frame handed to the encoder was rasterized by getFrame
Rasterized(n) == gifFrames[n].obj[1] = "html2canvas"

\* the n-th frame handed to the encoder is the copy of a cached canvas
FromCache(n) == gifFrames[n].obj[1] = "createElement"

\* the cache keys of the positions 0..k-1 under the present filter and
\* border colour
KeysOfBurst(k) == {<<i, edFilter, borderColorState>> : i \in 0..(k - 1)}

\* the frame loop has ended in an editor session without any edit
LoopEndedUnedited == exPc = "gif_encoding" /\ edits = 0

ContrastValues ==
    {parseFloat(MatchArg(getFilterStyle(f), "contrast")) :
        f \in {"bw", "soft", "vintage"}}

\* the channel values of pixel data
ChannelsOf(data) ==
    UNION {{data[n].r, data[n].g, data[n].b} : n \in 1..Len(data)}

\* the channel values the canvases were drawn with
DrawnLevels == UNION {ChannelsOf(canvasPixels[c].raw) : c \in Canvases}

\* C29: for each of the contrast values 0.9, 1.1 and 1.2 the computed factor
\* is positive and the contrast step preserves the order of channel values:
\* of two channel values the brighter never comes out darker.
C29_ContrastKeepsOrder ==
    \A ct \in ContrastValues :
        /\ (FactorNum(ct) > 0) = (FactorDen(ct) > 0)
        /\ \A v \in DrawnLevels, w \in DrawnLevels :
              v <= w => ContrastStep(ct, v) <= ContrastStep(ct, w)

=============================================================================
